---- MODULE Spec2Model ----
(***************************************************************************)
(* State-machine model of SP500MomentumTracker (src/sp500_tracker.py).     *)
(*                                                                         *)
(* The three CSV stores are modelled as files holding a sequence of rows.  *)
(* Prices are positive integers; percentages are integers counted in       *)
(* hundredths of a percent (6.0 % is 600), which is the precision the      *)
(* code rounds to.  A NaN cell (a column a row never received a value for) *)
(* is the empty tuple NaN, a present value v is <<v>>.  Each ledger row    *)
(* carries a history field eid, the insertion number of the event, which   *)
(* the code does not store: it only names events in the properties.        *)
(***************************************************************************)
EXTENDS Integers, Sequences, FiniteSets, TLC

VARIABLES
    today,                \* datetime.now() as a day number
    closes,               \* Price Source: ticker -> daily closes, oldest first
    cache_file,           \* data_dir / "sp500_tickers.txt"
    tracking_file,        \* data_dir / "tracking_list.csv"
    historical_file,      \* data_dir / "historical_tracking.csv"
    daily_snapshot_file,  \* data_dir / "daily_snapshots.csv"
    new_movers,           \* the DataFrame get_daily_movers returned, called on its own
    scan,                 \* that call of get_daily_movers: its inputs and position
    proc,                 \* the process SpecCrash runs statement by statement
    ml_dataset,           \* the DataFrame the last get_ml_ready_dataset returned
    download,             \* the call of download_sp500_tickers: inputs, position, result
    next_eid,             \* history: number of events inserted so far
    failures,             \* history: provider calls that gave no price so far
    last                  \* history: the last call, its inputs and its outcome

vars == <<today, closes, cache_file, tracking_file, historical_file,
          daily_snapshot_file, new_movers, scan, proc, ml_dataset, download, next_eid,
          failures, last>>

-----------------------------------------------------------------------------
(* Bounds of the model *)

MaxEvents == 2        \* events ever inserted, in Spec
MaxFewEvents == 1     \* events ever inserted, in SpecDays and SpecFail
MaxDay == 2           \* the last day of the clock, in SpecDays
MaxFailures == 1      \* provider calls that give no price, in SpecFail
MaxCloses == 2        \* closes the provider holds for a ticker, in SpecScan
MaxKills == 1         \* processes terminated before their end, in SpecCrash
MaxMoves == 1         \* days on which the price changes, in SpecRound

(* Inputs *)

Tickers == {"A", "B-B", "C"}
Universes == {<<"A", "B.B">>, <<"C", "A">>, <<"C">>}
CacheLists == {<<"A", "">>}
InitCloses == [t \in Tickers |-> IF t = "A" THEN <<110, 100>>
                                 ELSE IF t = "B-B" THEN <<100, 106>>
                                 ELSE <<100, 100>>]
NextClose == [t \in Tickers |-> IF t = "A" THEN 110
                                ELSE IF t = "B-B" THEN 106
                                ELSE 104]
CallOutcomes == {"ok", "empty", "error"}
ScanUniverses == {<<"A", "B.B">>, <<"B.B", "C", "A">>}
ScanPrices == {95, 100, 104, 106}

(* Program constants *)

WindowLimit == 10
DefaultThreshold == 5
RoundDigits == 2
Period5d == 5
Period1d == 1

-----------------------------------------------------------------------------
(* Values *)

NaN == <<>>
None == <<>>
NoFile == [exists |-> FALSE, rows |-> <<>>]

File(rs) == [exists |-> TRUE, rows |-> rs]

Abs(x) == IF x < 0 THEN -x ELSE x

Pow10(n) == IF n = 0 THEN 1 ELSE IF n = 1 THEN 10 ELSE IF n = 2 THEN 100 ELSE 1000

SelectRows(rs, st) == SelectSeq(rs, LAMBDA r : r.status = st)

LastRows(h, n) == IF Len(h) <= n THEN h ELSE SubSeq(h, Len(h) - n + 1, Len(h))

(* round(x, 2) of x = num / den * 100 with den > 0, as an integer number of
   hundredths: the nearest integer to num * 10000 / den, ties to even. *)
RoundPct(num, den) ==
    LET scaled == num * 100 * Pow10(RoundDigits)
        q == scaled \div den
        r == scaled % den
    IN  IF 2 * r < den THEN q
        ELSE IF 2 * r > den THEN q + 1
        ELSE IF q % 2 = 0 THEN q ELSE q + 1

(* ticker.replace('.', '-') on the symbols of the model *)
ReplaceDot(t) == IF t = "B.B" THEN "B-B" ELSE IF t = "BRK.B" THEN "BRK-B" ELSE t

MapReplace(ts) == [i \in 1..Len(ts) |-> ReplaceDot(ts[i])]

(* stock.history(period=...) of a successful call: the last n closes *)
History(t, n) == IF t \in DOMAIN closes THEN LastRows(closes[t], n) ELSE <<>>

-----------------------------------------------------------------------------
(* get_sp500_tickers *)

fallback_tickers ==
    << "AAPL", "MSFT", "GOOGL", "AMZN", "NVDA", "META", "TSLA", "BRK.B",
       "UNH", "JNJ", "XOM", "V", "PG", "JPM", "MA", "HD", "CVX", "MRK",
       "LLY", "ABBV", "PEP", "AVGO", "KO", "COST", "WMT", "MCD", "CSCO",
       "TMO", "ACN", "ABT", "ADBE", "CRM", "NFLX", "DHR", "VZ", "NKE",
       "TXN", "DIS", "INTC", "CMCSA", "PM", "UPS", "ORCL", "AMD", "NEE" >>

Returned(v) == [raised |-> "", value |-> v]
Raised(e) == [raised |-> e, value |-> <<>>]

(* wiki is the outcome of the remote fetch, with the Symbol column of the
   fetched table when it succeeded; cache_read is
   the outcome of opening and reading the cache file.  The last statement
   returns the name fallback_ickers, which is bound nowhere: evaluating it
   raises NameError outside every try block. *)
get_sp500_tickers(wiki, cache_read) ==
    IF wiki.ok THEN Returned(MapReplace(wiki.symbols))
    ELSE IF cache_file.exists /\ cache_read = "ok"
         THEN Returned(SelectSeq(cache_file.rows, LAMBDA l : l # ""))
    ELSE Raised("NameError")

-----------------------------------------------------------------------------
(* get_daily_movers *)

(* IsMover with > for >= in the test of line 91 *)
IsMoverStrict(today_close, prev_close, threshold) ==
    Abs(today_close - prev_close) * 100 > threshold * prev_close

(* abs(change_pct) >= threshold with change_pct = (today_close - prev_close)
   / prev_close * 100 and prev_close > 0, in exact arithmetic *)
IsMover(today_close, prev_close, threshold) ==
    Abs(today_close - prev_close) * 100 >= threshold * prev_close

Mover(ticker, today_close, prev_close) ==
    [ticker |-> ticker,
     date_detected |-> today,
     detection_price |-> today_close,
     change_pct |-> RoundPct(today_close - prev_close, prev_close),
     business_days_tracked |-> 0,
     status |-> "active"]

(* ScanOne whose except branch gives up what the scan has found so far *)
ScanOneReset(ticker, oc, threshold, movers) ==
    LET hist == IF oc = "ok" THEN History(ticker, Period5d) ELSE <<>>
    IN  IF oc = "error" THEN <<>>
        ELSE IF Len(hist) < 2 THEN movers
        ELSE IF IsMover(hist[Len(hist)], hist[Len(hist) - 1], threshold)
             THEN Append(movers, Mover(ticker, hist[Len(hist)], hist[Len(hist) - 1]))
        ELSE movers

(* the body of the loop for tickers[i]: outcome[i] is what the provider
   does on this call (answers, answers with no rows, raises) *)
ScanOne(ticker, oc, threshold, movers) ==
    LET hist == IF oc = "ok" THEN History(ticker, Period5d) ELSE <<>>
    IN  IF oc = "error" THEN movers
        ELSE IF Len(hist) < 2 THEN movers
        ELSE IF IsMover(hist[Len(hist)], hist[Len(hist) - 1], threshold)
             THEN Append(movers, Mover(ticker, hist[Len(hist)], hist[Len(hist) - 1]))
        ELSE movers

RECURSIVE ScanFrom(_, _, _, _, _)
ScanFrom(tickers, outcome, threshold, i, movers) ==
    IF i > Len(tickers) THEN movers
    ELSE ScanFrom(tickers, outcome, threshold, i + 1,
                  ScanOne(tickers[i], outcome[i], threshold, movers))

get_daily_movers(fetched, outcome, threshold) ==
    IF fetched.raised # "" THEN fetched
    ELSE Returned(ScanFrom(fetched.value, outcome, threshold, 1, <<>>))

-----------------------------------------------------------------------------
(* update_tracking_list *)

NewRow(m, eid) ==
    [eid |-> eid,
     ticker |-> m.ticker,
     date_detected |-> m.date_detected,
     detection_price |-> m.detection_price,
     change_pct |-> m.change_pct,
     business_days_tracked |-> m.business_days_tracked,
     status |-> m.status,
     current_price |-> NaN,
     total_change_pct |-> NaN,
     last_updated |-> NaN]

(* pd.concat([tracking_df, new_movers]): the new rows follow the old ones *)
Concat(rows, movers, first_eid) ==
    rows \o [i \in 1..Len(movers) |-> NewRow(movers[i], first_eid + i - 1)]

(* update_tracking_list dropping the movers whose ticker has an active row *)
update_tracking_list_dedup(tracking, movers, first_eid) ==
    LET loaded == IF tracking.exists THEN tracking.rows ELSE <<>>
        fresh == SelectSeq(movers, LAMBDA m :
                     \A i \in DOMAIN loaded :
                         loaded[i].ticker # m.ticker \/ loaded[i].status # "active")
        tracking_df == IF fresh # <<>> THEN Concat(loaded, fresh, first_eid)
                       ELSE loaded
    IN  IF tracking_df # <<>> THEN File(tracking_df) ELSE tracking

(* the tracking file after update_tracking_list(movers) *)
update_tracking_list(tracking, movers, first_eid) ==
    LET loaded == IF tracking.exists THEN tracking.rows ELSE <<>>
        tracking_df == IF movers # <<>> THEN Concat(loaded, movers, first_eid)
                       ELSE loaded
    IN  IF tracking_df # <<>> THEN File(tracking_df) ELSE tracking

-----------------------------------------------------------------------------
(* get_current_prices and track_existing_stocks *)

Get(dict, key) == IF key \in DOMAIN dict THEN dict[key] ELSE None

Put(dict, key, value) ==
    [k \in DOMAIN dict \cup {key} |-> IF k = key THEN value ELSE dict[k]]

EmptyDict == [k \in {} |-> None]

(* the body of the loop for one ticker: oc is what the provider does on
   this call (answers, answers with no rows, raises) *)
PriceOne(ticker, oc, prices) ==
    LET hist == IF oc = "ok" THEN History(ticker, Period1d) ELSE <<>>
    IN  IF oc = "error" THEN Put(prices, ticker, None)
        ELSE IF hist # <<>> THEN Put(prices, ticker, <<hist[Len(hist)]>>)
        ELSE prices

RECURSIVE PricesFrom(_, _, _, _)
PricesFrom(tickers, outcome, i, prices) ==
    IF i > Len(tickers) THEN prices
    ELSE PricesFrom(tickers, outcome, i + 1, PriceOne(tickers[i], outcome[i], prices))

get_current_prices(tickers, outcome) == PricesFrom(tickers, outcome, 1, EmptyDict)

ActiveTickers(rows) ==
    LET act == SelectRows(rows, "active") IN [i \in 1..Len(act) |-> act[i].ticker]

(* UpdateRow cutting the change after 2 decimals instead of rounding it *)
UpdateRowTruncated(row, current_price) ==
    LET days_tracked == row.business_days_tracked + 1
        price_change == ((current_price - row.detection_price) * 100 * Pow10(RoundDigits))
                            \div row.detection_price
    IN  [row EXCEPT !.business_days_tracked = days_tracked,
                    !.current_price = <<current_price>>,
                    !.total_change_pct = <<price_change>>,
                    !.last_updated = <<today>>,
                    !.status = IF days_tracked >= WindowLimit THEN "completed" ELSE @]

(* UpdateRow writing the new price and change to the detection cells as well *)
UpdateRowRebased(row, current_price) ==
    LET days_tracked == row.business_days_tracked + 1
        price_change == RoundPct(current_price - row.detection_price, row.detection_price)
    IN  [row EXCEPT !.business_days_tracked = days_tracked,
                    !.detection_price = current_price,
                    !.change_pct = price_change,
                    !.current_price = <<current_price>>,
                    !.total_change_pct = <<price_change>>,
                    !.last_updated = <<today>>,
                    !.status = IF days_tracked >= WindowLimit THEN "completed" ELSE @]

(* UpdateRow completing one update late: > for >= in the test of line 184 *)
UpdateRowLate(row, current_price) ==
    LET days_tracked == row.business_days_tracked + 1
        price_change == RoundPct(current_price - row.detection_price, row.detection_price)
    IN  [row EXCEPT !.business_days_tracked = days_tracked,
                    !.current_price = <<current_price>>,
                    !.total_change_pct = <<price_change>>,
                    !.last_updated = <<today>>,
                    !.status = IF days_tracked > WindowLimit THEN "completed" ELSE @]

(* lines 174-185: the new cells of an active row that has a price *)
UpdateRow(row, current_price) ==
    LET days_tracked == row.business_days_tracked + 1
        price_change == RoundPct(current_price - row.detection_price, row.detection_price)
    IN  [row EXCEPT !.business_days_tracked = days_tracked,
                    !.current_price = <<current_price>>,
                    !.total_change_pct = <<price_change>>,
                    !.last_updated = <<today>>,
                    !.status = IF days_tracked >= WindowLimit THEN "completed" ELSE @]

(* Snapshot reading the status from the row as it was loaded *)
SnapshotStale(row, updated) ==
    [eid |-> row.eid,
     ticker |-> row.ticker,
     date_detected |-> row.date_detected,
     tracking_day |-> updated.business_days_tracked,
     current_date |-> today,
     detection_price |-> row.detection_price,
     current_price |-> updated.current_price[1],
     initial_change_pct |-> row.change_pct,
     cumulative_change_pct |-> updated.total_change_pct[1],
     status |-> row.status]

(* lines 191-201: the snapshot of a row and its updated cells *)
Snapshot(row, updated) ==
    [eid |-> row.eid,
     ticker |-> row.ticker,
     date_detected |-> row.date_detected,
     tracking_day |-> updated.business_days_tracked,
     current_date |-> today,
     detection_price |-> row.detection_price,
     current_price |-> updated.current_price[1],
     initial_change_pct |-> row.change_pct,
     cumulative_change_pct |-> updated.total_change_pct[1],
     status |-> updated.status]

(* Touched without the filter of line 153: the loop runs over every row *)
TouchedAnyStatus(row, current_prices) ==
    Get(current_prices, row.ticker) # None

(* the loop reaches a row iff it is active, and passes the continue iff the
   dictionary holds a price for its ticker *)
Touched(row, current_prices) ==
    row.status = "active" /\ Get(current_prices, row.ticker) # None

(* TrackRows counting the day of an active row it has no price for *)
TrackRowsCounting(rows, current_prices) ==
    [i \in 1..Len(rows) |->
        IF Touched(rows[i], current_prices)
        THEN UpdateRow(rows[i], Get(current_prices, rows[i].ticker)[1])
        ELSE IF rows[i].status = "active"
             THEN [rows[i] EXCEPT !.business_days_tracked = @ + 1]
        ELSE rows[i]]

TrackRows(rows, current_prices) ==
    [i \in 1..Len(rows) |->
        IF Touched(rows[i], current_prices)
        THEN UpdateRow(rows[i], Get(current_prices, rows[i].ticker)[1])
        ELSE rows[i]]

RECURSIVE DailyUpdates(_, _, _)
DailyUpdates(rows, current_prices, i) ==
    IF i > Len(rows) THEN <<>>
    ELSE IF Touched(rows[i], current_prices)
         THEN <<Snapshot(rows[i], UpdateRow(rows[i], Get(current_prices, rows[i].ticker)[1]))>>
              \o DailyUpdates(rows, current_prices, i + 1)
    ELSE DailyUpdates(rows, current_prices, i + 1)

(* the two stores after track_existing_stocks, given the provider's answers *)
track_existing_stocks(tracking, snapshots, outcome) ==
    LET rows == tracking.rows
        current_prices == get_current_prices(ActiveTickers(rows), outcome)
        daily_updates == DailyUpdates(rows, current_prices, 1)
    IN  IF ~tracking.exists \/ SelectRows(rows, "active") = <<>>
        THEN [tracking |-> tracking, snapshots |-> snapshots, prices |-> EmptyDict]
        ELSE [tracking |-> File(TrackRows(rows, current_prices)),
              snapshots |-> IF daily_updates # <<>>
                            THEN File(snapshots.rows \o daily_updates)
                            ELSE snapshots,
              prices |-> current_prices]

-----------------------------------------------------------------------------
(* archive_completed_stocks *)

(* archive_completed_stocks appending the whole ledger to the historical store *)
archive_completed_stocks_all(tracking, historical) ==
    LET completed == SelectRows(tracking.rows, "completed")
    IN  IF ~tracking.exists \/ completed = <<>>
        THEN [tracking |-> tracking, historical |-> historical]
        ELSE [tracking |-> File(SelectRows(tracking.rows, "active")),
              historical |-> File(historical.rows \o tracking.rows)]

(* archive_completed_stocks without lines 234-235: the ledger is not rewritten *)
archive_completed_stocks_copy(tracking, historical) ==
    LET completed == SelectRows(tracking.rows, "completed")
    IN  IF ~tracking.exists \/ completed = <<>>
        THEN [tracking |-> tracking, historical |-> historical]
        ELSE [tracking |-> tracking,
              historical |-> File(historical.rows \o completed)]

(* archive_completed_stocks writing the historical store with mode 'w' *)
archive_completed_stocks_overwrite(tracking, historical) ==
    LET completed == SelectRows(tracking.rows, "completed")
    IN  IF ~tracking.exists \/ completed = <<>>
        THEN [tracking |-> tracking, historical |-> historical]
        ELSE [tracking |-> File(SelectRows(tracking.rows, "active")),
              historical |-> File(completed)]

(* lines 217-235: the two stores after archive_completed_stocks *)
archive_completed_stocks(tracking, historical) ==
    LET completed == SelectRows(tracking.rows, "completed")
    IN  IF ~tracking.exists \/ completed = <<>>
        THEN [tracking |-> tracking, historical |-> historical]
        ELSE [tracking |-> File(SelectRows(tracking.rows, "active")),
              historical |-> File(historical.rows \o completed)]

-----------------------------------------------------------------------------
(* get_ml_ready_dataset *)

(* x / y on two float64 columns: IEEE 754 division, which for y = 0 gives
   inf, -inf or nan and raises nothing; a finite quotient is kept as the
   pair of its terms *)
FloatDiv(x, y) ==
    IF y # 0 THEN [kind |-> "finite", num |-> x, den |-> y]
    ELSE IF x > 0 THEN [kind |-> "inf", num |-> x, den |-> y]
    ELSE IF x < 0 THEN [kind |-> "-inf", num |-> x, den |-> y]
    ELSE [kind |-> "nan", num |-> x, den |-> y]

(* lines 286-301: the columns added to one snapshot *)
Features(n) ==
    [eid |-> n.eid,
     tracking_day |-> n.tracking_day,
     initial_change_pct |-> n.initial_change_pct,
     cumulative_change_pct |-> n.cumulative_change_pct,
     days_since_detection |-> n.current_date - n.date_detected,
     initial_move_direction |-> IF n.initial_change_pct > 0 THEN "gain" ELSE "loss",
     initial_move_magnitude |-> Abs(n.initial_change_pct),
     momentum_continuation |-> FloatDiv(n.cumulative_change_pct, n.initial_change_pct),
     continued_direction |->
         \/ n.initial_change_pct > 0 /\ n.cumulative_change_pct > 0
         \/ n.initial_change_pct < 0 /\ n.cumulative_change_pct < 0]

get_ml_ready_dataset(snapshots) ==
    IF ~snapshots.exists THEN <<>>
    ELSE [i \in 1..Len(snapshots.rows) |-> Features(snapshots.rows[i])]

-----------------------------------------------------------------------------
(* run_daily_update: the four steps in order.  A NameError out of step 1
   leaves the method before any store is written. *)

(* run_daily_update with step 3 before step 2: the ledger is updated, then
   the new movers are inserted *)
run_daily_update_track_first(fetched, scan_outcome, threshold, track_outcome) ==
    LET movers == get_daily_movers(fetched, scan_outcome, threshold)
        step3 == track_existing_stocks(tracking_file, daily_snapshot_file, track_outcome)
        step2 == update_tracking_list(step3.tracking, movers.value, next_eid + 1)
        step4 == archive_completed_stocks(step2, historical_file)
    IN  IF movers.raised # ""
        THEN [raised |-> movers.raised, new_movers |-> <<>>, prices |-> EmptyDict,
              tracking |-> tracking_file, snapshots |-> daily_snapshot_file,
              historical |-> historical_file]
        ELSE [raised |-> "", new_movers |-> movers.value, prices |-> step3.prices,
              tracking |-> step4.tracking, snapshots |-> step3.snapshots,
              historical |-> step4.historical]

(* run_daily_update without step 4 *)
run_daily_update_unarchived(fetched, scan_outcome, threshold, track_outcome) ==
    LET movers == get_daily_movers(fetched, scan_outcome, threshold)
        step2 == update_tracking_list(tracking_file, movers.value, next_eid + 1)
        step3 == track_existing_stocks(step2, daily_snapshot_file, track_outcome)
    IN  IF movers.raised # ""
        THEN [raised |-> movers.raised, new_movers |-> <<>>, prices |-> EmptyDict,
              tracking |-> tracking_file, snapshots |-> daily_snapshot_file,
              historical |-> historical_file]
        ELSE [raised |-> "", new_movers |-> movers.value, prices |-> step3.prices,
              tracking |-> step3.tracking, snapshots |-> step3.snapshots,
              historical |-> historical_file]

(* run_daily_update with steps 3 and 4 in the other order *)
run_daily_update_archive_first(fetched, scan_outcome, threshold, track_outcome) ==
    LET movers == get_daily_movers(fetched, scan_outcome, threshold)
        step2 == update_tracking_list(tracking_file, movers.value, next_eid + 1)
        step4 == archive_completed_stocks(step2, historical_file)
        step3 == track_existing_stocks(step4.tracking, daily_snapshot_file, track_outcome)
    IN  IF movers.raised # ""
        THEN [raised |-> movers.raised, new_movers |-> <<>>, prices |-> EmptyDict,
              tracking |-> tracking_file, snapshots |-> daily_snapshot_file,
              historical |-> historical_file]
        ELSE [raised |-> "", new_movers |-> movers.value, prices |-> step3.prices,
              tracking |-> step3.tracking, snapshots |-> step3.snapshots,
              historical |-> step4.historical]

run_daily_update(fetched, scan_outcome, threshold, track_outcome) ==
    LET movers == get_daily_movers(fetched, scan_outcome, threshold)
        step2 == update_tracking_list(tracking_file, movers.value, next_eid + 1)
        step3 == track_existing_stocks(step2, daily_snapshot_file, track_outcome)
        step4 == archive_completed_stocks(step3.tracking, historical_file)
    IN  IF movers.raised # ""
        THEN [raised |-> movers.raised, new_movers |-> <<>>, prices |-> EmptyDict,
              tracking |-> tracking_file, snapshots |-> daily_snapshot_file,
              historical |-> historical_file]
        ELSE [raised |-> "", new_movers |-> movers.value, prices |-> step3.prices,
              tracking |-> step4.tracking, snapshots |-> step3.snapshots,
              historical |-> step4.historical]

-----------------------------------------------------------------------------
(* The calls *)

Failed(outcome) == Cardinality({i \in DOMAIN outcome : outcome[i] # "ok"})

(* the answers of the provider to n calls, of which the budget lets at most
   MaxFailures, less those already spent, give no price *)
Outcomes(n, budget, used) ==
    {o \in [1..n -> CallOutcomes] : failures + used + Failed(o) <= budget}

(* the outcomes of reading the cache file, when it is read at all *)
CacheReads(wiki) == IF wiki.ok \/ ~cache_file.exists THEN {"ok"} ELSE {"ok", "error"}

Thresholds == {DefaultThreshold}
ScanThresholds == {DefaultThreshold, DefaultThreshold + 1}

(* the history of a call: the method, the exception that left it ("" when it
   returned), the dictionary get_current_prices built in it, and the number
   of rows it appended to the historical store *)
Call(op, raised, prices, moved) ==
    [op |-> op, raised |-> raised, prices |-> prices, moved |-> moved]

WikiOutcomes == {[ok |-> FALSE, symbols |-> <<>>]} \cup {[ok |-> TRUE, symbols |-> u] : u \in Universes}

(* run_daily_update(threshold) *)
RunDailyUpdate(cap, budget) ==
    \E wiki \in WikiOutcomes, threshold \in Thresholds : \E cache_read \in CacheReads(wiki) :
        LET fetched == get_sp500_tickers(wiki, cache_read)
        IN  \E scan_outcome \in Outcomes(Len(fetched.value), budget, 0) :
            LET movers == get_daily_movers(fetched, scan_outcome, threshold).value
                inserted == update_tracking_list(tracking_file, movers, next_eid + 1)
            IN  /\ next_eid + Len(movers) <= cap
                /\ \E track_outcome \in Outcomes(Len(ActiveTickers(inserted.rows)),
                                                 budget, Failed(scan_outcome)) :
                        LET r == run_daily_update(fetched, scan_outcome, threshold, track_outcome)
                            failed == IF r.raised # "" THEN 0
                                      ELSE Failed(scan_outcome) + Failed(track_outcome)
                        IN  /\ tracking_file' = r.tracking
                            /\ daily_snapshot_file' = r.snapshots
                            /\ historical_file' = r.historical
                            /\ next_eid' = next_eid + Len(r.new_movers)
                            /\ failures' = failures + failed
                            /\ last' = Call("run_daily_update", r.raised, r.prices,
                                            Len(r.historical.rows) - Len(historical_file.rows))
                            /\ UNCHANGED <<today, closes, cache_file, new_movers, scan, proc, ml_dataset, download>>

(* update_tracking_list(get_daily_movers(threshold)) called on its own *)
UpdateTrackingList(cap, budget) ==
    \E wiki \in WikiOutcomes, threshold \in Thresholds : \E cache_read \in CacheReads(wiki) :
        LET fetched == get_sp500_tickers(wiki, cache_read)
        IN  \E scan_outcome \in Outcomes(Len(fetched.value), budget, 0) :
            LET movers == get_daily_movers(fetched, scan_outcome, threshold)
            IN  /\ next_eid + Len(movers.value) <= cap
                /\ tracking_file' = IF movers.raised # "" THEN tracking_file
                                    ELSE update_tracking_list(tracking_file, movers.value,
                                                              next_eid + 1)
                /\ next_eid' = next_eid + Len(movers.value)
                /\ failures' = failures + Failed(scan_outcome)
                /\ last' = Call("update_tracking_list", movers.raised, EmptyDict, 0)
                /\ UNCHANGED <<today, closes, cache_file, historical_file,
                               daily_snapshot_file, new_movers, scan, proc, ml_dataset,
                               download>>

(* track_existing_stocks() called on its own *)
TrackExistingStocks(budget) ==
    \E outcome \in Outcomes(Len(ActiveTickers(tracking_file.rows)), budget, 0) :
        LET r == track_existing_stocks(tracking_file, daily_snapshot_file, outcome)
        IN  /\ failures' = failures + Failed(outcome)
            /\ tracking_file' = r.tracking
            /\ daily_snapshot_file' = r.snapshots
            /\ last' = Call("track_existing_stocks", "", r.prices, 0)
            /\ UNCHANGED <<today, closes, cache_file, historical_file, new_movers, scan,
                           proc, ml_dataset, next_eid, download>>

(* archive_completed_stocks() called on its own *)
ArchiveCompletedStocks ==
    LET r == archive_completed_stocks(tracking_file, historical_file)
    IN  /\ tracking_file' = r.tracking
        /\ historical_file' = r.historical
        /\ last' = Call("archive_completed_stocks", "", EmptyDict,
                        Len(r.historical.rows) - Len(historical_file.rows))
        /\ UNCHANGED <<today, closes, cache_file, daily_snapshot_file, new_movers, scan,
                       proc, ml_dataset, next_eid, failures, download>>

(* a business day passes: every ticker gets a new close *)
Tick ==
    /\ today < MaxDay
    /\ today' = today + 1
    /\ closes' = [t \in Tickers |-> Append(closes[t], NextClose[t])]
    /\ last' = Call("tick", "", EmptyDict, 0)
    /\ UNCHANGED <<cache_file, tracking_file, historical_file, daily_snapshot_file,
                   new_movers, scan, proc, ml_dataset, next_eid, failures, download>>

(* get_daily_movers(threshold) called on its own, with the inputs scan holds *)
GetDailyMovers ==
    /\ scan.pc = "called"
    /\ LET fetched == get_sp500_tickers(scan.wiki, "ok")
           movers == get_daily_movers(fetched, scan.outcome, scan.threshold)
       IN  /\ new_movers' = movers.value
           /\ scan' = [scan EXCEPT !.pc = IF movers.raised # "" THEN "raised" ELSE "returned"]
           /\ last' = Call("get_daily_movers", movers.raised, EmptyDict, 0)
    /\ UNCHANGED <<today, closes, cache_file, tracking_file, historical_file,
                   daily_snapshot_file, proc, ml_dataset, next_eid, failures, download>>

NoScan == [wiki |-> [ok |-> FALSE, symbols |-> <<>>], outcome |-> <<>>,
           threshold |-> DefaultThreshold, pc |-> "none"]

(* a process: its position, the frames and lists it holds in memory, and as
   history the position it was terminated at and the terminations so far *)
Process(pc, tracking_df, current_prices, todo, daily_updates, completed) ==
    [pc |-> pc, at |-> "", tracking_df |-> tracking_df, current_prices |-> current_prices,
     todo |-> todo, daily_updates |-> daily_updates, completed |-> completed,
     kills |-> proc.kills]

(* no call of download_sp500_tickers *)
NoDownload ==
    [pc |-> "none", mkdir |-> "ok", methods |-> <<>>, writes |-> <<>>, raised |-> "",
     value |-> <<>>, called |-> <<>>, fallback |-> FALSE]

NoProcess ==
    [pc |-> "idle", at |-> "", tracking_df |-> <<>>, current_prices |-> EmptyDict,
     todo |-> <<>>, daily_updates |-> <<>>, completed |-> <<>>, kills |-> 0]

Returns == Process("idle", <<>>, EmptyDict, <<>>, <<>>, <<>>)

Stores ==
    /\ today = 1
    /\ proc = NoProcess
    /\ ml_dataset = <<>>
    /\ download = NoDownload
    /\ tracking_file = NoFile
    /\ historical_file = NoFile
    /\ daily_snapshot_file = NoFile
    /\ new_movers = <<>>
    /\ next_eid = 0
    /\ failures = 0
    /\ last = Call("init", "", EmptyDict, 0)

Init ==
    /\ Stores
    /\ closes = InitCloses
    /\ cache_file \in {NoFile} \cup {File(l) : l \in CacheLists}
    /\ scan = NoScan

(* Spec: the calls in any order on one day, the provider answering every
   call, up to MaxEvents events *)

RunDailyUpdateCall == RunDailyUpdate(MaxEvents, 0)
UpdateTrackingListCall == UpdateTrackingList(MaxEvents, 0)
TrackExistingStocksCall == TrackExistingStocks(0)

Next ==
    \/ RunDailyUpdateCall
    \/ UpdateTrackingListCall
    \/ TrackExistingStocksCall
    \/ ArchiveCompletedStocks

Spec == Init /\ [][Next]_vars

(* SpecDays: the same calls with the days passing *)

InitNoCache == Init /\ cache_file = NoFile

RunDailyUpdateDay == RunDailyUpdate(MaxFewEvents, 0)
UpdateTrackingListDay == UpdateTrackingList(MaxFewEvents, 0)

NextDays ==
    \/ RunDailyUpdateDay
    \/ UpdateTrackingListDay
    \/ TrackExistingStocksCall
    \/ ArchiveCompletedStocks
    \/ Tick

SpecDays == InitNoCache /\ [][NextDays]_vars

(* SpecFail: the same calls on one day with the provider failing *)

RunDailyUpdateFail == RunDailyUpdate(MaxFewEvents, MaxFailures)
UpdateTrackingListFail == UpdateTrackingList(MaxFewEvents, MaxFailures)
TrackExistingStocksFail == TrackExistingStocks(MaxFailures)

NextFail ==
    \/ RunDailyUpdateFail
    \/ UpdateTrackingListFail
    \/ TrackExistingStocksFail
    \/ ArchiveCompletedStocks

SpecFail == InitNoCache /\ [][NextFail]_vars

(* SpecScan: one call of get_daily_movers, on every price history of up to
   MaxCloses closes for the tickers A and B-B, every answer of the provider
   and both thresholds; no cache file *)

Histories == UNION {[1..n -> ScanPrices] : n \in 0..MaxCloses}

ScanCloses ==
    {[t \in Tickers |-> IF t = "A" THEN a ELSE IF t = "B-B" THEN b ELSE <<100, 104>>] :
        a \in Histories, b \in Histories}

ScanWikiOutcomes ==
    {[ok |-> FALSE, symbols |-> <<>>]} \cup {[ok |-> TRUE, symbols |-> u] : u \in ScanUniverses}

ScanCalls ==
    UNION {{[wiki |-> w, outcome |-> o, threshold |-> th, pc |-> "called"] :
                o \in [1..Len(w.symbols) -> CallOutcomes], th \in ScanThresholds} :
           w \in ScanWikiOutcomes}

InitScan ==
    /\ Stores
    /\ closes \in ScanCloses
    /\ cache_file = NoFile
    /\ scan \in ScanCalls

NextScan == GetDailyMovers

SpecScan == InitScan /\ [][NextScan]_vars

(* SpecCrash: track_existing_stocks and archive_completed_stocks run one
   statement at a time, each write of a file being one step, and the process
   can be terminated between any two steps; what it held in memory is then
   lost.  The provider answers every call. *)

AllOk(n) == [i \in 1..n |-> "ok"]

ActiveIndexes(rows) ==
    LET RECURSIVE From(_)
        From(i) == IF i > Len(rows) THEN <<>>
                   ELSE IF rows[i].status = "active" THEN <<i>> \o From(i + 1)
                   ELSE From(i + 1)
    IN  From(1)

Idle == proc.pc \in {"idle", "killed"}

Private ==
    UNCHANGED <<today, closes, cache_file, new_movers, scan, ml_dataset, next_eid, failures,
download>>

(* lines 148-164: the ledger is read and the prices are fetched *)
TrackRead ==
    /\ Idle
    /\ IF ~tracking_file.exists \/ SelectRows(tracking_file.rows, "active") = <<>>
       THEN /\ proc' = Returns
            /\ last' = Call("track_existing_stocks", "", EmptyDict, 0)
       ELSE /\ proc' = Process("loop", tracking_file.rows,
                               get_current_prices(ActiveTickers(tracking_file.rows),
                                   AllOk(Len(ActiveTickers(tracking_file.rows)))),
                               ActiveIndexes(tracking_file.rows), <<>>, <<>>)
            /\ last' = Call("track_existing_stocks", "running", EmptyDict, 0)
    /\ UNCHANGED <<tracking_file, historical_file, daily_snapshot_file>>
    /\ Private

(* lines 166-201: one pass through the loop body, on the frame in memory *)
TrackBody ==
    /\ proc.pc = "loop"
    /\ proc.todo # <<>>
    /\ LET idx == Head(proc.todo)
           row == proc.tracking_df[idx]
           updated == UpdateRow(row, Get(proc.current_prices, row.ticker)[1])
       IN  proc' = IF Touched(row, proc.current_prices)
                   THEN [proc EXCEPT !.tracking_df[idx] = updated,
                                     !.daily_updates = Append(@, Snapshot(row, updated)),
                                     !.todo = Tail(@)]
                   ELSE [proc EXCEPT !.todo = Tail(@)]
    /\ UNCHANGED <<tracking_file, historical_file, daily_snapshot_file, last>>
    /\ Private

(* line 204: the frame is written to the tracking file *)
TrackSave ==
    /\ proc.pc = "loop"
    /\ proc.todo = <<>>
    /\ tracking_file' = File(proc.tracking_df)
    /\ proc' = [proc EXCEPT !.pc = "saved"]
    /\ UNCHANGED <<historical_file, daily_snapshot_file, last>>
    /\ Private

(* lines 207-214: the snapshots are appended and the method returns *)
TrackAppend ==
    /\ proc.pc = "saved"
    /\ daily_snapshot_file' = IF proc.daily_updates # <<>>
                              THEN File(daily_snapshot_file.rows \o proc.daily_updates)
                              ELSE daily_snapshot_file
    /\ proc' = Returns
    /\ last' = Call("track_existing_stocks", "", proc.current_prices, 0)
    /\ UNCHANGED <<tracking_file, historical_file>>
    /\ Private

(* lines 218-225: the ledger is read and the completed rows selected *)
ArchiveRead ==
    /\ Idle
    /\ IF ~tracking_file.exists \/ SelectRows(tracking_file.rows, "completed") = <<>>
       THEN /\ proc' = Returns
            /\ last' = Call("archive_completed_stocks", "", EmptyDict, 0)
       ELSE /\ proc' = Process("selected", tracking_file.rows, EmptyDict, <<>>, <<>>,
                               SelectRows(tracking_file.rows, "completed"))
            /\ last' = Call("archive_completed_stocks", "running", EmptyDict, 0)
    /\ UNCHANGED <<tracking_file, historical_file, daily_snapshot_file>>
    /\ Private

(* archive_writes with the two writes in the other order *)
archive_writes_ledger_first(pc, tracking, historical) ==
    IF pc = "selected"
    THEN [pc |-> "appended",
          tracking |-> File(SelectRows(proc.tracking_df, "active")),
          historical |-> historical]
    ELSE [pc |-> "idle",
          tracking |-> tracking,
          historical |-> File(historical.rows \o proc.completed)]

(* the write the process makes at pc: lines 228-231 append the completed rows
   to the historical file, then lines 234-235 rewrite the tracking file *)
archive_writes(pc, tracking, historical) ==
    IF pc = "selected"
    THEN [pc |-> "appended",
          tracking |-> tracking,
          historical |-> File(historical.rows \o proc.completed)]
    ELSE [pc |-> "idle",
          tracking |-> File(SelectRows(proc.tracking_df, "active")),
          historical |-> historical]

(* lines 228-231 *)
ArchiveAppend ==
    /\ proc.pc = "selected"
    /\ LET w == archive_writes(proc.pc, tracking_file, historical_file)
       IN  /\ tracking_file' = w.tracking
           /\ historical_file' = w.historical
           /\ proc' = [proc EXCEPT !.pc = w.pc]
    /\ UNCHANGED <<daily_snapshot_file, last>>
    /\ Private

(* lines 234-237 *)
ArchiveRewrite ==
    /\ proc.pc = "appended"
    /\ LET w == archive_writes(proc.pc, tracking_file, historical_file)
       IN  /\ tracking_file' = w.tracking
           /\ historical_file' = w.historical
           /\ proc' = Returns
           /\ last' = Call("archive_completed_stocks", "", EmptyDict, Len(proc.completed))
    /\ UNCHANGED daily_snapshot_file
    /\ Private

(* the process is terminated where it is: the files stay as they are *)
Interrupt ==
    /\ ~Idle
    /\ proc.kills < MaxKills
    /\ proc' = [proc EXCEPT !.pc = "killed", !.at = proc.pc, !.kills = @ + 1]
    /\ last' = Call("interrupt", "", EmptyDict, 0)
    /\ UNCHANGED <<tracking_file, historical_file, daily_snapshot_file>>
    /\ Private

UpdateTrackingListIdle == Idle /\ UpdateTrackingList(MaxEvents, 0)

NextCrash ==
    \/ UpdateTrackingListIdle
    \/ TrackRead
    \/ TrackBody
    \/ TrackSave
    \/ TrackAppend
    \/ ArchiveRead
    \/ ArchiveAppend
    \/ ArchiveRewrite
    \/ Interrupt

SpecCrash == InitNoCache /\ [][NextCrash]_vars

(* SpecCut: the same processes, on fewer events *)

UpdateTrackingListFew == Idle /\ UpdateTrackingList(MaxFewEvents, 0)

NextCut ==
    \/ UpdateTrackingListFew
    \/ TrackRead
    \/ TrackBody
    \/ TrackSave
    \/ TrackAppend
    \/ ArchiveRead
    \/ ArchiveAppend
    \/ ArchiveRewrite
    \/ Interrupt

SpecCut == InitNoCache /\ [][NextCut]_vars

(* SpecRound: one event of ticker A, detected on any two closes that make a
   move, is tracked while the close of A changes to any price on up to
   MaxMoves days; no cache file *)

RoundCloses ==
    {[t \in Tickers |-> IF t = "A" THEN <<p, q>> ELSE <<>>] : p \in ScanPrices, q \in ScanPrices}

Detected ==
    get_daily_movers(Returned(<<"A">>), AllOk(1), DefaultThreshold).value

InitRound ==
    /\ today = 1
    /\ proc = NoProcess
    /\ ml_dataset = <<>>
    /\ download = NoDownload
    /\ closes \in RoundCloses
    /\ Detected # <<>>
    /\ cache_file = NoFile
    /\ tracking_file = update_tracking_list(NoFile, Detected, 1)
    /\ historical_file = NoFile
    /\ daily_snapshot_file = NoFile
    /\ new_movers = <<>>
    /\ scan = NoScan
    /\ next_eid = Len(Detected)
    /\ failures = 0
    /\ last = Call("update_tracking_list", "", EmptyDict, 0)

(* a business day passes and A closes at any price *)
PriceMove ==
    /\ today <= MaxMoves
    /\ today' = today + 1
    /\ \E p \in ScanPrices : closes' = [closes EXCEPT !["A"] = Append(@, p)]
    /\ last' = Call("tick", "", EmptyDict, 0)
    /\ UNCHANGED <<cache_file, tracking_file, historical_file, daily_snapshot_file,
                   new_movers, scan, proc, ml_dataset, next_eid, failures, download>>

NextRound ==
    \/ TrackExistingStocksCall
    \/ ArchiveCompletedStocks
    \/ PriceMove

SpecRound == InitRound /\ [][NextRound]_vars

(* SpecFeatures: one call of update_tracking_list on the movers of ticker A
   at threshold 0 or 5.0, on any two closes, then the event is tracked while
   the price changes and the dataset is derived; no cache file *)

FeatureThresholds == {0, DefaultThreshold}

InitFeatures ==
    /\ today = 1
    /\ proc = NoProcess
    /\ ml_dataset = <<>>
    /\ download = NoDownload
    /\ closes \in RoundCloses
    /\ cache_file = NoFile
    /\ \E threshold \in FeatureThresholds :
          LET movers == get_daily_movers(Returned(<<"A">>), AllOk(1), threshold).value
          IN  /\ movers # <<>>
              /\ tracking_file = update_tracking_list(NoFile, movers, 1)
    /\ historical_file = NoFile
    /\ daily_snapshot_file = NoFile
    /\ new_movers = <<>>
    /\ scan = NoScan
    /\ next_eid = 1
    /\ failures = 0
    /\ last = Call("update_tracking_list", "", EmptyDict, 0)

(* get_ml_ready_dataset() *)
GetMlReadyDataset ==
    /\ ml_dataset' = get_ml_ready_dataset(daily_snapshot_file)
    /\ last' = Call("get_ml_ready_dataset", "", EmptyDict, 0)
    /\ UNCHANGED <<today, closes, cache_file, tracking_file, historical_file,
                   daily_snapshot_file, new_movers, scan, proc, next_eid, failures, download>>

NextFeatures ==
    \/ TrackExistingStocksCall
    \/ PriceMove
    \/ GetMlReadyDataset

SpecFeatures == InitFeatures /\ [][NextFeatures]_vars

-----------------------------------------------------------------------------
(* Properties *)

Range(f) == {f[i] : i \in DOMAIN f}

(* every event of the two stores *)
Events == Range(tracking_file.rows) \cup Range(historical_file.rows)

(* the snapshots of an event, oldest first *)
SnapshotsOf(eid) == SelectSeq(daily_snapshot_file.rows, LAMBDA n : n.eid = eid)

(* C1: every event's observation count (business_days_tracked) starts at 0,
   never decreases from one call to the next, and is never greater than 10,
   in the active ledger and in the historical store.  An event that a run
   inserted has gone through that run's updater pass when the run returns:
   its count is then 0, or 1 with a single snapshot of index 1. *)
C1_Bounded ==
    \A r \in Events : r.business_days_tracked \in 0..WindowLimit

C1_Step ==
    /\ \A r \in Events' :
          (\A q \in Events : q.eid # r.eid) =>
              /\ r \in Range(tracking_file'.rows)
              /\ \/ r.business_days_tracked = 0 /\ SnapshotsOf(r.eid)' = <<>>
                 \/ /\ last'.op = "run_daily_update"
                    /\ r.business_days_tracked = 1
                    /\ Len(SnapshotsOf(r.eid)') = 1
                    /\ SnapshotsOf(r.eid)'[1].tracking_day = 1
    /\ \A q \in Events : \A r \in Events' :
          q.eid = r.eid => r.business_days_tracked >= q.business_days_tracked

C1_CountMonotoneBounded == []C1_Bounded /\ [][C1_Step]_vars

C1_Witness ==
    /\ \E r \in Range(historical_file.rows) : r.business_days_tracked = WindowLimit
    /\ \E r \in Range(tracking_file.rows) :
          r.business_days_tracked > 0 /\ r.business_days_tracked < WindowLimit

(* C2: status is completed exactly when the observation count is 10: an
   active event turns completed in the step that takes its count to 10, and a
   completed event never turns active again nor changes in any cell. *)
C2_Status ==
    \A r \in Events :
        /\ r.status \in {"active", "completed"}
        /\ r.status = "completed" <=> r.business_days_tracked = WindowLimit

C2_Step ==
    \A q \in Events : \A r \in Events' :
        q.eid = r.eid =>
            /\ q.status = "completed" => r = q
            /\ (q.status = "active" /\ r.status = "completed") =>
                   /\ q.business_days_tracked = WindowLimit - 1
                   /\ r.business_days_tracked = WindowLimit

C2_CompletedAtTen == []C2_Status /\ [][C2_Step]_vars

C2_Witness ==
    /\ last.op = "track_existing_stocks"
    /\ \E r \in Range(tracking_file.rows) :
          r.status = "completed" /\ r.last_updated # NaN
    /\ \E r \in Range(tracking_file.rows) : r.status = "active"

(* C3: get_sp500_tickers never raises into the run: when the remote fetch
   fails and no usable cache file exists it returns the hardcoded list, so
   neither get_daily_movers nor run_daily_update is left by an exception of
   the provider. *)
C3_ProviderNeverRaises ==
    last.op \in {"run_daily_update", "update_tracking_list"} => last.raised = ""

(* C4: in a Daily Updater pass an active event whose ticker got no price
   (the dictionary of get_current_prices holds None or nothing for it) keeps
   every cell, status active included, stays in the ledger and gets no
   snapshot; an active event whose ticker got a price, whether or not it was
   skipped before, has its count advanced by one, takes that price and gets
   one snapshot. *)
C4_Step ==
    (last'.op \in {"track_existing_stocks", "run_daily_update"} /\ last'.raised = "") =>
        \A q \in Range(tracking_file.rows) :
            q.status = "active" =>
                IF Get(last'.prices, q.ticker) = None
                THEN /\ q \in Range(tracking_file'.rows)
                     /\ \A r \in Events' : r.eid = q.eid => r = q
                     /\ SnapshotsOf(q.eid)' = SnapshotsOf(q.eid)
                ELSE /\ \A r \in Events' :
                            r.eid = q.eid =>
                                /\ r.business_days_tracked = q.business_days_tracked + 1
                                /\ r.current_price = Get(last'.prices, q.ticker)
                     /\ Len(SnapshotsOf(q.eid)') = Len(SnapshotsOf(q.eid)) + 1

C4_SkippedWithoutPrice == [][C4_Step]_vars

C4_Witness ==
    /\ last.op = "track_existing_stocks"
    /\ \E r \in Range(tracking_file.rows) :
          /\ r.status = "active"
          /\ Get(last.prices, r.ticker) = None
          /\ r.business_days_tracked >= 1
          /\ Len(SnapshotsOf(r.eid)) = r.business_days_tracked

(* C5: one call of archive_completed_stocks appends every completed row of
   the ledger, cell for cell and after the rows the historical store held, to
   the historical store, and leaves in the ledger exactly the rows that were
   not completed, unchanged and in their order. *)
C5_Step ==
    last'.op = "archive_completed_stocks" =>
        LET old == Len(historical_file.rows)
            new == Len(historical_file'.rows)
            done == {i \in DOMAIN tracking_file.rows :
                        tracking_file.rows[i].status = "completed"}
        IN  /\ new = old + Cardinality(done)
            /\ SubSeq(historical_file'.rows, 1, old) = historical_file.rows
            /\ \A i \in done :
                  /\ \E j \in (old + 1)..new : historical_file'.rows[j] = tracking_file.rows[i]
                  /\ tracking_file.rows[i] \notin Range(tracking_file'.rows)
            /\ tracking_file'.rows =
                  SelectSeq(tracking_file.rows, LAMBDA r : r.status # "completed")

C5_ArchiverFrame == [][C5_Step]_vars

C5_Witness ==
    /\ last.op = "archive_completed_stocks"
    /\ last.moved >= 1
    /\ \E r \in Range(tracking_file.rows) : r.status = "active"

(* C6: when run_daily_update returns, the ledger holds no completed row: a
   row that completed in the run's updater pass is in the historical store.
   An event detected at 100 and observed at 110 in every update has cumulative
   change 10.00; with count 9 it is active and in the ledger; with count 10
   it is completed, and in the historical store and not in the ledger when a
   run has returned. *)
C6_ArchivedInSameRun ==
    /\ (last.op = "run_daily_update" /\ last.raised = "") =>
           \A r \in Range(tracking_file.rows) : r.status # "completed"
    /\ \A r \in Events :
           (/\ r.detection_price = 100
            /\ r.business_days_tracked >= 1
            /\ \A n \in Range(SnapshotsOf(r.eid)) : n.current_price = 110) =>
               /\ r.total_change_pct = <<1000>>
               /\ r.business_days_tracked = 9 =>
                      r.status = "active" /\ r \in Range(tracking_file.rows)
               /\ r.business_days_tracked = 10 => r.status = "completed"
               /\ (/\ r.business_days_tracked = 10
                   /\ last.op = "run_daily_update"
                   /\ last.raised = "") =>
                      /\ r \in Range(historical_file.rows)
                      /\ r \notin Range(tracking_file.rows)

C6_Witness ==
    /\ last.op = "run_daily_update"
    /\ last.raised = ""
    /\ last.moved >= 1
    /\ \E r \in Range(historical_file.rows) :
          /\ r.detection_price = 100
          /\ r.business_days_tracked = 10
          /\ Len(SnapshotsOf(r.eid)) = 10
          /\ \A n \in Range(SnapshotsOf(r.eid)) : n.current_price = 110

(* C7: archive_completed_stocks called right after archive_completed_stocks
   changes neither the ledger nor the historical store: the state a call
   leaves is a fixed point of the method. *)
C7_Fixpoint ==
    last.op = "archive_completed_stocks" =>
        archive_completed_stocks(tracking_file, historical_file)
            = [tracking |-> tracking_file, historical |-> historical_file]

C7_Step ==
    (last.op = "archive_completed_stocks" /\ last'.op = "archive_completed_stocks") =>
        UNCHANGED <<tracking_file, historical_file>>

C7_ArchiverIdempotent == []C7_Fixpoint /\ [][C7_Step]_vars

C7_Witness ==
    /\ last.op = "archive_completed_stocks"
    /\ last.moved = 0
    /\ tracking_file.exists
    /\ tracking_file.rows = <<>>
    /\ historical_file.rows # <<>>

(* C8: every event ever inserted is, after every call, in exactly one row of
   the ledger and the historical store taken together: never in both, never
   twice, never in neither. *)
Occurrences(rows, eid) == Cardinality({i \in DOMAIN rows : rows[i].eid = eid})

C8_MovedNotCopied ==
    \A e \in 1..next_eid :
        Occurrences(tracking_file.rows, e) + Occurrences(historical_file.rows, e) = 1

C8_Witness ==
    /\ last.op = "archive_completed_stocks"
    /\ last.moved = 1
    /\ Len(historical_file.rows) = 2
    /\ tracking_file.rows = <<>>

(* The call of get_daily_movers that SpecScan makes *)
Scanned == get_sp500_tickers(scan.wiki, "ok").value

(* the closes the provider returned for the i-th ticker of the scan *)
Closes(i) == IF scan.outcome[i] = "ok" THEN History(Scanned[i], Period5d) ELSE <<>>

Latest(i) == Closes(i)[Len(Closes(i))]
Previous(i) == Closes(i)[Len(Closes(i)) - 1]

EventsOf(i) == SelectSeq(new_movers, LAMBDA m : m.ticker = Scanned[i])

(* abs((latest - previous) / previous * 100) >= threshold, previous > 0 *)
Moved(i) ==
    \/ (Latest(i) - Previous(i)) * 100 >= scan.threshold * Previous(i)
    \/ (Previous(i) - Latest(i)) * 100 >= scan.threshold * Previous(i)

(* the event is the one the detector emits for the i-th ticker, but for the
   initial change percent *)
Emitted(i, m) ==
    /\ m.business_days_tracked = 0
    /\ m.status = "active"
    /\ m.detection_price = Latest(i)
    /\ m.date_detected = today

(* the examples: threshold 5.0 and closes ending 100, 106 give an event with
   initial change 6.00 and detection price 106, closes ending 100, 104 none *)
Examples(i) ==
    /\ (scan.threshold = 5 /\ Previous(i) = 100 /\ Latest(i) = 106) =>
           /\ Len(EventsOf(i)) = 1
           /\ EventsOf(i)[1].change_pct = 600
           /\ EventsOf(i)[1].detection_price = 106
    /\ (scan.threshold = 5 /\ Previous(i) = 100 /\ Latest(i) = 104) =>
           EventsOf(i) = <<>>

(* C9, as the claim states it: for every scanned ticker with at least two
   closes the detector emits an event iff abs(change) >= threshold, with count
   0, status active, detection price the latest close, and an initial change
   percent equal to the signed change (latest - previous) / previous * 100. *)
C9_InitialChangeIsSignedChange ==
    scan.pc = "returned" =>
        \A i \in 1..Len(Scanned) :
            Len(Closes(i)) >= 2 =>
                /\ Len(EventsOf(i)) = (IF Moved(i) THEN 1 ELSE 0)
                /\ \A m \in Range(EventsOf(i)) :
                      /\ Emitted(i, m)
                      /\ m.change_pct * Previous(i) = (Latest(i) - Previous(i)) * 10000
                /\ Examples(i)

(* C9, amended: the same, with an initial change percent equal to the signed
   change rounded to 2 decimal places: it is a whole number of hundredths at
   most half a hundredth away from the signed change. *)
C9_InitialChangeIsRounded ==
    scan.pc = "returned" =>
        \A i \in 1..Len(Scanned) :
            Len(Closes(i)) >= 2 =>
                /\ Len(EventsOf(i)) = (IF Moved(i) THEN 1 ELSE 0)
                /\ \A m \in Range(EventsOf(i)) :
                      /\ Emitted(i, m)
                      /\ 2 * Abs(m.change_pct * Previous(i)
                                 - (Latest(i) - Previous(i)) * 10000) <= Previous(i)
                /\ Examples(i)

C9_Witness ==
    /\ scan.pc = "returned"
    /\ \E i \in 1..Len(Scanned) :
          /\ Len(Closes(i)) >= 2
          /\ Len(EventsOf(i)) = 1
          /\ EventsOf(i)[1].change_pct * Previous(i) # (Latest(i) - Previous(i)) * 10000
    /\ \E i \in 1..Len(Scanned) :
          /\ Len(Closes(i)) >= 2
          /\ Abs(Latest(i) - Previous(i)) * 100 = scan.threshold * Previous(i)
          /\ Latest(i) < Previous(i)
          /\ Len(EventsOf(i)) = 1

(* C10: a ticker whose lookup raises, or for which the provider returns
   fewer than 2 closes, is skipped, and the scan goes on: the events emitted,
   and their order, are those of the scan of the universe without that
   ticker. *)
Without(seq, i) == [j \in 1..(Len(seq) - 1) |-> IF j < i THEN seq[j] ELSE seq[j + 1]]

C10_FailureIsolated ==
    scan.pc = "returned" =>
        \A i \in 1..Len(Scanned) :
            Len(Closes(i)) < 2 =>
                /\ EventsOf(i) = <<>>
                /\ new_movers = get_daily_movers(Returned(Without(Scanned, i)),
                                                 Without(scan.outcome, i),
                                                 scan.threshold).value

C10_Witness ==
    /\ scan.pc = "returned"
    /\ \E i, j, k \in 1..Len(Scanned) :
          /\ i < j /\ j < k
          /\ EventsOf(i) # <<>>
          /\ scan.outcome[j] = "error"
          /\ EventsOf(k) # <<>>

(* C11: update_tracking_list does not deduplicate.  Called on its own it
   appends one row for every detected mover, whether or not the ticker has an
   active row, and leaves the rows the ledger held as they were; in every
   call two events of one ticker go their own way: each is completed exactly
   when its own count reaches 10, and a call that archives moves the
   completed one and leaves the active one in the ledger. *)
SameTicker(q, r) == q.ticker = r.ticker /\ q.eid # r.eid

C11_Step ==
    /\ last'.op = "update_tracking_list" =>
           /\ Len(tracking_file'.rows) = Len(tracking_file.rows) + (next_eid' - next_eid)
           /\ SubSeq(tracking_file'.rows, 1, Len(tracking_file.rows)) = tracking_file.rows
           /\ \A i \in (Len(tracking_file.rows) + 1)..Len(tracking_file'.rows) :
                  /\ tracking_file'.rows[i].business_days_tracked = 0
                  /\ tracking_file'.rows[i].status = "active"
    /\ \A q \in Events' : \A r \in Events' :
           SameTicker(q, r) =>
               /\ q.status = "completed" <=> q.business_days_tracked = WindowLimit
               /\ (/\ last'.op \in {"archive_completed_stocks", "run_daily_update"}
                   /\ last'.raised = ""
                   /\ q.status = "completed"
                   /\ r.status = "active") =>
                      /\ q \in Range(historical_file'.rows)
                      /\ q \notin Range(tracking_file'.rows)
                      /\ r \in Range(tracking_file'.rows)
                      /\ r \notin Range(historical_file'.rows)

C11_NoDeduplication == [][C11_Step]_vars

C11_Witness ==
    /\ last.op = "archive_completed_stocks"
    /\ \E q \in Range(historical_file.rows) : \E r \in Range(tracking_file.rows) :
          /\ SameTicker(q, r)
          /\ q.business_days_tracked = WindowLimit
          /\ r.status = "active"
          /\ r.business_days_tracked >= 1
          /\ r.business_days_tracked < WindowLimit

(* C12: no call changes the ticker, the detection date, the detection price
   or the initial change percent of an event that exists, in the ledger or in
   the historical store. *)
C12_Step ==
    \A q \in Events : \A r \in Events' :
        q.eid = r.eid =>
            /\ r.ticker = q.ticker
            /\ r.date_detected = q.date_detected
            /\ r.detection_price = q.detection_price
            /\ r.change_pct = q.change_pct

C12_DetectionFieldsImmutable == [][C12_Step]_vars

C12_Witness ==
    \E q \in Range(historical_file.rows) : \E r \in Range(tracking_file.rows) :
        /\ q.business_days_tracked = WindowLimit
        /\ q.total_change_pct # <<q.change_pct>>
        /\ q.eid < r.eid
        /\ r.business_days_tracked >= 1

(* C13: the snapshot log only grows at its end.  Every update of an event
   appends one snapshot that carries the event's new count as its index and
   the event's status after the update, and a call that does not update an
   event appends none for it: an event of count n has n snapshots, of
   indices 1..n in this order, the last with the status the event has. *)
C13_Log ==
    \A r \in Events :
        LET log == SnapshotsOf(r.eid)
        IN  /\ Len(log) = r.business_days_tracked
            /\ \A k \in 1..Len(log) : log[k].tracking_day = k
            /\ Len(log) >= 1 => log[Len(log)].status = r.status

C13_Step ==
    /\ Len(daily_snapshot_file.rows) <= Len(daily_snapshot_file'.rows)
    /\ SubSeq(daily_snapshot_file'.rows, 1, Len(daily_snapshot_file.rows))
           = daily_snapshot_file.rows
    /\ \A q \in Events : \A r \in Events' :
           q.eid = r.eid =>
               IF r.business_days_tracked = q.business_days_tracked
               THEN SnapshotsOf(q.eid)' = SnapshotsOf(q.eid)
               ELSE /\ Len(SnapshotsOf(q.eid)') = Len(SnapshotsOf(q.eid)) + 1
                    /\ SubSeq(SnapshotsOf(q.eid)', 1, Len(SnapshotsOf(q.eid)))
                           = SnapshotsOf(q.eid)
                    /\ LET n == SnapshotsOf(q.eid)'[Len(SnapshotsOf(q.eid)')]
                       IN  /\ n.tracking_day = r.business_days_tracked
                           /\ n.status = r.status
                           /\ n.ticker = r.ticker

C13_SnapshotLogAppendOnly == []C13_Log /\ [][C13_Step]_vars

C13_Witness ==
    /\ \E r \in Range(historical_file.rows) :
          /\ Len(SnapshotsOf(r.eid)) = WindowLimit
          /\ SnapshotsOf(r.eid)[WindowLimit].status = "completed"
          /\ SnapshotsOf(r.eid)[WindowLimit - 1].status = "active"
    /\ \E r \in Range(tracking_file.rows) :
          /\ Len(SnapshotsOf(r.eid)) >= 2
          /\ Len(SnapshotsOf(r.eid)) < WindowLimit
    /\ Len(daily_snapshot_file.rows) > WindowLimit + 2

(* C14: when a pass of track_existing_stocks is terminated in its loop, after
   it processed some active rows and before it processed others, the tracking
   file holds the new cells of the rows processed and the old cells of the
   others, that is the frame the process held in memory. *)
C14_ProcessedRowsPersisted ==
    (/\ last.op = "interrupt"
     /\ proc.at = "loop"
     /\ proc.daily_updates # <<>>
     /\ proc.todo # <<>>) =>
        \A i \in DOMAIN proc.tracking_df : tracking_file.rows[i] = proc.tracking_df[i]

(* C19: archive_completed_stocks appends the completed rows to the historical
   file before it rewrites the tracking file.  Wherever the process is
   terminated, every event inserted is in at least one of the two files, and
   an event leaves the tracking file only when the historical file holds it;
   terminated between the two writes, it leaves the completed rows in both
   files, and the next call appends them to the historical file once more. *)
C19_NoneLost ==
    \A e \in 1..next_eid :
        Occurrences(tracking_file.rows, e) + Occurrences(historical_file.rows, e) >= 1

C19_InBoth ==
    (last.op = "interrupt" /\ proc.at = "appended") =>
        /\ proc.completed # <<>>
        /\ \A q \in Range(proc.completed) :
              q \in Range(tracking_file.rows) /\ q \in Range(historical_file.rows)

C19_Step ==
    /\ \A q \in Range(tracking_file.rows) :
          Occurrences(tracking_file'.rows, q.eid) = 0 => q \in Range(historical_file.rows)
    /\ (proc.pc = "selected" /\ proc'.pc = "appended") =>
          /\ tracking_file' = tracking_file
          /\ \A q \in Range(tracking_file.rows) :
                q.status = "completed" =>
                    Occurrences(historical_file'.rows, q.eid)
                        = Occurrences(historical_file.rows, q.eid) + 1

C19_HistoricalWrittenFirst == []C19_NoneLost /\ []C19_InBoth /\ [][C19_Step]_vars

C19_Witness ==
    /\ last.op = "archive_completed_stocks"
    /\ last.moved >= 1
    /\ proc.kills >= 1
    /\ \E e \in 1..next_eid :
          /\ Occurrences(historical_file.rows, e) = 2
          /\ Occurrences(tracking_file.rows, e) = 0

(* C15: for every event updated at least once the stored cumulative change
   is (current price - detection price) / detection price * 100 rounded to 2
   decimals, on the detection price and the current price stored with it: a
   whole number of hundredths at most half a hundredth away from that
   quotient.  This holds for the rows of the ledger and of the historical
   store and for every snapshot. *)
IsRounded(pct, current_price, detection_price) ==
    2 * Abs(pct * detection_price - (current_price - detection_price) * 10000)
        <= detection_price

C15_CumulativeChangeRounded ==
    /\ \A r \in Events :
          IF r.business_days_tracked >= 1
          THEN /\ r.current_price # NaN
               /\ r.total_change_pct # NaN
               /\ IsRounded(r.total_change_pct[1], r.current_price[1], r.detection_price)
          ELSE r.current_price = NaN /\ r.total_change_pct = NaN
    /\ \A n \in Range(daily_snapshot_file.rows) :
          IsRounded(n.cumulative_change_pct, n.current_price, n.detection_price)

C15_Witness ==
    \E r \in Range(historical_file.rows) :
        /\ r.total_change_pct[1] * r.detection_price
               # (r.current_price[1] - r.detection_price) * 10000
        /\ r.total_change_pct[1] < 0
        /\ \E n \in Range(SnapshotsOf(r.eid)) :
              n.cumulative_change_pct # r.total_change_pct[1]

(* C16: in the dataset get_ml_ready_dataset returns, a snapshot whose initial
   change percent is exactly 0 has a momentum continuation that a special
   case set to an explicit undefined value: it is not what the division of
   the cumulative change by zero gives (inf, -inf or nan). *)
C16_ZeroInitialSpecialCased ==
    \A f \in Range(ml_dataset) :
        f.initial_change_pct = 0 =>
            f.momentum_continuation.kind \notin {"inf", "-inf", "nan"}

(* C17: a run of run_daily_update in which the provider gives every price
   advances every active event by one, the events the run itself inserted
   included: an event is at count 1, with one snapshot, when its detection
   run returns, and an event at count 9 is completed and archived by the
   run, the 10th counting the detection run.  An event the run inserted and
   got no price for is at count 0. *)
C17_Step ==
    (last'.op = "run_daily_update" /\ last'.raised = "") =>
        /\ \A r \in Events' :
              r.eid > next_eid =>
                  /\ r \in Range(tracking_file'.rows)
                  /\ failures' = failures =>
                        /\ r.business_days_tracked = 1
                        /\ Len(SnapshotsOf(r.eid)') = 1
                  /\ Get(last'.prices, r.ticker) = None => r.business_days_tracked = 0
        /\ failures' = failures =>
              \A q \in Range(tracking_file.rows) :
                  q.status = "active" =>
                      \E r \in Events' :
                          /\ r.eid = q.eid
                          /\ r.business_days_tracked = q.business_days_tracked + 1
                          /\ q.business_days_tracked = WindowLimit - 1 =>
                                /\ r.status = "completed"
                                /\ r \in Range(historical_file'.rows)
                                /\ Occurrences(tracking_file'.rows, r.eid) = 0

C17_AdvancedInDetectionRun == [][C17_Step]_vars

C17_Witness ==
    /\ last.op = "run_daily_update"
    /\ last.raised = ""
    /\ last.moved = 1
    /\ failures >= 1
    /\ \E r \in Range(historical_file.rows) :
          /\ r.business_days_tracked = WindowLimit
          /\ SnapshotsOf(r.eid)[1].current_date = r.date_detected

(* SpecLive: runs without end on one day, the provider free to fail in any
   call of any run; failures is counted up to MaxFailures.  The fairness
   condition is the one of a scheduler that keeps invoking the run and of a
   provider that does not fail for a symbol from some run onward. *)

(* the answers of the provider to n calls: a price, or an exception *)
AnyOutcomes(n) == [1..n -> {"ok", "error"}]

Counted(n) == IF failures + n > MaxFailures THEN MaxFailures ELSE failures + n

RunDailyUpdateLive ==
    \E wiki \in WikiOutcomes, threshold \in Thresholds : \E cache_read \in CacheReads(wiki) :
        LET fetched == get_sp500_tickers(wiki, cache_read)
        IN  \E scan_outcome \in AnyOutcomes(Len(fetched.value)) :
            LET movers == get_daily_movers(fetched, scan_outcome, threshold).value
                inserted == update_tracking_list(tracking_file, movers, next_eid + 1)
            IN  /\ next_eid + Len(movers) <= MaxFewEvents
                /\ \E track_outcome \in AnyOutcomes(Len(ActiveTickers(inserted.rows))) :
                        LET r == run_daily_update(fetched, scan_outcome, threshold, track_outcome)
                            failed == IF r.raised # "" THEN 0
                                      ELSE Failed(scan_outcome) + Failed(track_outcome)
                        IN  /\ tracking_file' = r.tracking
                            /\ daily_snapshot_file' = r.snapshots
                            /\ historical_file' = r.historical
                            /\ next_eid' = next_eid + Len(r.new_movers)
                            /\ failures' = Counted(failed)
                            /\ last' = Call("run_daily_update", r.raised, r.prices,
                                            Len(r.historical.rows) - Len(historical_file.rows))
                            /\ UNCHANGED <<today, closes, cache_file, new_movers, scan, proc, ml_dataset, download>>

TrackExistingStocksLive ==
    \E outcome \in AnyOutcomes(Len(ActiveTickers(tracking_file.rows))) :
        LET r == track_existing_stocks(tracking_file, daily_snapshot_file, outcome)
        IN  /\ failures' = Counted(Failed(outcome))
            /\ tracking_file' = r.tracking
            /\ daily_snapshot_file' = r.snapshots
            /\ last' = Call("track_existing_stocks", "", r.prices, 0)
            /\ UNCHANGED <<today, closes, cache_file, historical_file, new_movers, scan,
                           proc, ml_dataset, next_eid, download>>

(* event eid is an active row of the ledger *)
ActiveInLedger(eid) ==
    \E r \in Range(tracking_file.rows) : r.eid = eid /\ r.status = "active"

(* a step of a run that returns and in which the provider gave a latest
   price for the symbol of event eid *)
PricedRun(eid) ==
    /\ last'.op = "run_daily_update"
    /\ last'.raised = ""
    /\ \E r \in Range(tracking_file'.rows) \cup Range(historical_file'.rows) :
          r.eid = eid /\ Get(last'.prices, r.ticker) # None

NextLive ==
    \/ RunDailyUpdateLive
    \/ TrackExistingStocksLive
    \/ ArchiveCompletedStocks

(* a step of a run that returns *)
ReturnedRun ==
    /\ last'.op = "run_daily_update"
    /\ last'.raised = ""

(* while an event is in the ledger runs go on, and while it is active its
   symbol gets a price in runs without end *)
Fairness ==
    \A eid \in 1..MaxFewEvents :
        /\ <>[](Occurrences(tracking_file.rows, eid) > 0) => []<><<ReturnedRun>>_vars
        /\ <>[]ActiveInLedger(eid) => []<><<PricedRun(eid)>>_vars

SpecLive == InitNoCache /\ [][NextLive]_vars /\ Fairness

(* C18: when runs go on and the symbol of an event gets a price in runs
   without end, an event that is in the ledger is eventually completed, in
   the historical store and out of the ledger. *)
C18_Archived(eid) ==
    /\ Occurrences(tracking_file.rows, eid) = 0
    /\ \E r \in Range(historical_file.rows) :
          r.eid = eid /\ r.status = "completed"

C18_EventuallyArchived ==
    \A eid \in 1..MaxFewEvents :
        (Occurrences(tracking_file.rows, eid) > 0) ~> C18_Archived(eid)

C18_Witness ==
    /\ last.op = "run_daily_update"
    /\ failures = MaxFailures
    /\ \E eid \in 1..MaxFewEvents :
          /\ C18_Archived(eid)
          /\ \E i \in DOMAIN SnapshotsOf(eid) : i > 1

-----------------------------------------------------------------------------
(* tickerDownload.py: download_sp500_tickers writes the file the tracker
   reads as its cache, data_dir / "sp500_tickers.txt" *)

MaxLine == 2          \* the last line at which a write of the ticker file may fail

methods ==
    << "download_from_wikipedia_requests", "download_from_wikipedia_pandas",
       "download_from_alternative" >>

(* a method raises, or reads a Symbol column, which may be empty *)
MethodOutcomes ==
    {[ok |-> FALSE, symbols |-> <<>>], [ok |-> TRUE, symbols |-> <<>>],
     [ok |-> TRUE, symbols |-> <<"A", "B.B">>], [ok |-> TRUE, symbols |-> <<"C">>]}

(* open(output_file, 'w') raises, or truncates the file; then the write of
   line failing raises, none when failing is 0 *)
WriteOutcomes ==
    {[opened |-> FALSE, failing |-> 0]} \cup {[opened |-> TRUE, failing |-> k] : k \in 0..MaxLine}

major_tickers ==
    << "AAPL", "MSFT", "GOOGL", "AMZN", "NVDA", "META", "TSLA", "AVGO",
       "ORCL", "ADBE", "CRM", "ACN", "AMD", "CSCO", "INTC", "IBM", "QCOM",
       "TXN", "INTU", "NOW", "UNH", "JNJ", "LLY", "ABBV", "MRK", "TMO",
       "ABT", "DHR", "PFE", "BMY", "AMGN", "GILD", "CVS", "CI", "ISRG",
       "REGN", "VRTX", "MDT", "BSX", "ELV", "JPM", "BAC", "WFC", "MS", "GS",
       "BLK", "SPGI", "C", "AXP", "USB", "PNC", "TFC", "BK", "SCHW", "COF",
       "MMC", "AON", "ICE", "MCO", "CME", "AMZN", "TSLA", "HD", "MCD", "NKE",
       "SBUX", "TJX", "LOW", "BKNG", "ABNB", "WMT", "PG", "COST", "KO",
       "PEP", "PM", "MO", "CL", "MDLZ", "KMB", "XOM", "CVX", "COP", "SLB",
       "EOG", "MPC", "PSX", "VLO", "OXY", "HAL", "UPS", "RTX", "HON", "UNP",
       "BA", "CAT", "GE", "DE", "LMT", "MMM", "META", "GOOGL", "NFLX", "DIS",
       "CMCSA", "VZ", "T", "TMUS", "EA", "PARA", "NEE", "DUK", "SO", "D",
       "AEP", "EXC", "SRE", "PEG", "XEL", "ED", "PLD", "AMT", "EQIX", "PSA",
       "SPG", "WELL", "DLR", "O", "VICI", "AVB", "LIN", "APD", "SHW", "ECL",
       "FCX", "NEM", "DOW", "DD", "NUE", "VMC" >>

(* the characters of the tickers of major_tickers *)
Spelling ==
       "AAPL" :> << "A", "A", "P", "L" >> @@
       "MSFT" :> << "M", "S", "F", "T" >> @@
       "GOOGL" :> << "G", "O", "O", "G", "L" >> @@
       "AMZN" :> << "A", "M", "Z", "N" >> @@
       "NVDA" :> << "N", "V", "D", "A" >> @@
       "META" :> << "M", "E", "T", "A" >> @@
       "TSLA" :> << "T", "S", "L", "A" >> @@
       "AVGO" :> << "A", "V", "G", "O" >> @@
       "ORCL" :> << "O", "R", "C", "L" >> @@
       "ADBE" :> << "A", "D", "B", "E" >> @@
       "CRM" :> << "C", "R", "M" >> @@
       "ACN" :> << "A", "C", "N" >> @@
       "AMD" :> << "A", "M", "D" >> @@
       "CSCO" :> << "C", "S", "C", "O" >> @@
       "INTC" :> << "I", "N", "T", "C" >> @@
       "IBM" :> << "I", "B", "M" >> @@
       "QCOM" :> << "Q", "C", "O", "M" >> @@
       "TXN" :> << "T", "X", "N" >> @@
       "INTU" :> << "I", "N", "T", "U" >> @@
       "NOW" :> << "N", "O", "W" >> @@
       "UNH" :> << "U", "N", "H" >> @@
       "JNJ" :> << "J", "N", "J" >> @@
       "LLY" :> << "L", "L", "Y" >> @@
       "ABBV" :> << "A", "B", "B", "V" >> @@
       "MRK" :> << "M", "R", "K" >> @@
       "TMO" :> << "T", "M", "O" >> @@
       "ABT" :> << "A", "B", "T" >> @@
       "DHR" :> << "D", "H", "R" >> @@
       "PFE" :> << "P", "F", "E" >> @@
       "BMY" :> << "B", "M", "Y" >> @@
       "AMGN" :> << "A", "M", "G", "N" >> @@
       "GILD" :> << "G", "I", "L", "D" >> @@
       "CVS" :> << "C", "V", "S" >> @@
       "CI" :> << "C", "I" >> @@
       "ISRG" :> << "I", "S", "R", "G" >> @@
       "REGN" :> << "R", "E", "G", "N" >> @@
       "VRTX" :> << "V", "R", "T", "X" >> @@
       "MDT" :> << "M", "D", "T" >> @@
       "BSX" :> << "B", "S", "X" >> @@
       "ELV" :> << "E", "L", "V" >> @@
       "JPM" :> << "J", "P", "M" >> @@
       "BAC" :> << "B", "A", "C" >> @@
       "WFC" :> << "W", "F", "C" >> @@
       "MS" :> << "M", "S" >> @@
       "GS" :> << "G", "S" >> @@
       "BLK" :> << "B", "L", "K" >> @@
       "SPGI" :> << "S", "P", "G", "I" >> @@
       "C" :> << "C" >> @@
       "AXP" :> << "A", "X", "P" >> @@
       "USB" :> << "U", "S", "B" >> @@
       "PNC" :> << "P", "N", "C" >> @@
       "TFC" :> << "T", "F", "C" >> @@
       "BK" :> << "B", "K" >> @@
       "SCHW" :> << "S", "C", "H", "W" >> @@
       "COF" :> << "C", "O", "F" >> @@
       "MMC" :> << "M", "M", "C" >> @@
       "AON" :> << "A", "O", "N" >> @@
       "ICE" :> << "I", "C", "E" >> @@
       "MCO" :> << "M", "C", "O" >> @@
       "CME" :> << "C", "M", "E" >> @@
       "HD" :> << "H", "D" >> @@
       "MCD" :> << "M", "C", "D" >> @@
       "NKE" :> << "N", "K", "E" >> @@
       "SBUX" :> << "S", "B", "U", "X" >> @@
       "TJX" :> << "T", "J", "X" >> @@
       "LOW" :> << "L", "O", "W" >> @@
       "BKNG" :> << "B", "K", "N", "G" >> @@
       "ABNB" :> << "A", "B", "N", "B" >> @@
       "WMT" :> << "W", "M", "T" >> @@
       "PG" :> << "P", "G" >> @@
       "COST" :> << "C", "O", "S", "T" >> @@
       "KO" :> << "K", "O" >> @@
       "PEP" :> << "P", "E", "P" >> @@
       "PM" :> << "P", "M" >> @@
       "MO" :> << "M", "O" >> @@
       "CL" :> << "C", "L" >> @@
       "MDLZ" :> << "M", "D", "L", "Z" >> @@
       "KMB" :> << "K", "M", "B" >> @@
       "XOM" :> << "X", "O", "M" >> @@
       "CVX" :> << "C", "V", "X" >> @@
       "COP" :> << "C", "O", "P" >> @@
       "SLB" :> << "S", "L", "B" >> @@
       "EOG" :> << "E", "O", "G" >> @@
       "MPC" :> << "M", "P", "C" >> @@
       "PSX" :> << "P", "S", "X" >> @@
       "VLO" :> << "V", "L", "O" >> @@
       "OXY" :> << "O", "X", "Y" >> @@
       "HAL" :> << "H", "A", "L" >> @@
       "UPS" :> << "U", "P", "S" >> @@
       "RTX" :> << "R", "T", "X" >> @@
       "HON" :> << "H", "O", "N" >> @@
       "UNP" :> << "U", "N", "P" >> @@
       "BA" :> << "B", "A" >> @@
       "CAT" :> << "C", "A", "T" >> @@
       "GE" :> << "G", "E" >> @@
       "DE" :> << "D", "E" >> @@
       "LMT" :> << "L", "M", "T" >> @@
       "MMM" :> << "M", "M", "M" >> @@
       "NFLX" :> << "N", "F", "L", "X" >> @@
       "DIS" :> << "D", "I", "S" >> @@
       "CMCSA" :> << "C", "M", "C", "S", "A" >> @@
       "VZ" :> << "V", "Z" >> @@
       "T" :> << "T" >> @@
       "TMUS" :> << "T", "M", "U", "S" >> @@
       "EA" :> << "E", "A" >> @@
       "PARA" :> << "P", "A", "R", "A" >> @@
       "NEE" :> << "N", "E", "E" >> @@
       "DUK" :> << "D", "U", "K" >> @@
       "SO" :> << "S", "O" >> @@
       "D" :> << "D" >> @@
       "AEP" :> << "A", "E", "P" >> @@
       "EXC" :> << "E", "X", "C" >> @@
       "SRE" :> << "S", "R", "E" >> @@
       "PEG" :> << "P", "E", "G" >> @@
       "XEL" :> << "X", "E", "L" >> @@
       "ED" :> << "E", "D" >> @@
       "PLD" :> << "P", "L", "D" >> @@
       "AMT" :> << "A", "M", "T" >> @@
       "EQIX" :> << "E", "Q", "I", "X" >> @@
       "PSA" :> << "P", "S", "A" >> @@
       "SPG" :> << "S", "P", "G" >> @@
       "WELL" :> << "W", "E", "L", "L" >> @@
       "DLR" :> << "D", "L", "R" >> @@
       "O" :> << "O" >> @@
       "VICI" :> << "V", "I", "C", "I" >> @@
       "AVB" :> << "A", "V", "B" >> @@
       "LIN" :> << "L", "I", "N" >> @@
       "APD" :> << "A", "P", "D" >> @@
       "SHW" :> << "S", "H", "W" >> @@
       "ECL" :> << "E", "C", "L" >> @@
       "FCX" :> << "F", "C", "X" >> @@
       "NEM" :> << "N", "E", "M" >> @@
       "DOW" :> << "D", "O", "W" >> @@
       "DD" :> << "D", "D" >> @@
       "NUE" :> << "N", "U", "E" >> @@
       "VMC" :> << "V", "M", "C" >>

Alphabet ==
    << "A", "B", "C", "D", "E", "F", "G", "H", "I", "J", "K", "L", "M",
       "N", "O", "P", "Q", "R", "S", "T", "U", "V", "W", "X", "Y", "Z" >>

(* ord(c) of a capital letter, counted from "A" *)
Ord(c) == CHOOSE i \in DOMAIN Alphabet : Alphabet[i] = c

(* x < y of two strings, given by their characters *)
RECURSIVE Before(_, _)
Before(x, y) ==
    IF x = <<>> THEN y # <<>>
    ELSE IF y = <<>> THEN FALSE
    ELSE IF Head(x) # Head(y) THEN Ord(Head(x)) < Ord(Head(y))
    ELSE Before(Tail(x), Tail(y))

StrLess(a, b) == Before(Spelling[a], Spelling[b])

(* sorted(list(S)) of a set S of tickers: a ticker stands after the tickers
   that are less than it *)
sorted(S) ==
    LET rank == [x \in S |-> Cardinality({y \in S : StrLess(y, x)})]
    IN  [i \in 1..Cardinality(S) |-> CHOOSE x \in S : rank[x] = i - 1]

(* sorted(list(set(major_tickers))) *)
sorted_major_tickers == sorted({major_tickers[i] : i \in DOMAIN major_tickers})

(* with open(output_file, 'w') as f: for ticker in tickers: f.write(...) *)
WriteTickers(output_file, tickers, w) ==
    IF ~w.opened THEN [raised |-> "OSError", file |-> output_file]
    ELSE IF w.failing = 0 \/ w.failing > Len(tickers)
    THEN [raised |-> "", file |-> File(tickers)]
    ELSE [raised |-> "OSError", file |-> File(SubSeq(tickers, 1, w.failing - 1))]

(* a download method: the Symbol column with '.' replaced by '-' *)
Method(outcome) ==
    IF outcome.ok THEN Returned(MapReplace(outcome.symbols)) ELSE Raised("Exception")

(* if tickers: taken for every list *)
TruthyAlways(tickers) == TRUE

(* if tickers: *)
Truthy(tickers) == tickers # <<>>

create_fallback_file(output_file, w) == WriteTickers(output_file, sorted_major_tickers, w)

(* the loop over methods, from method i on *)
RECURSIVE TryMethods(_, _, _, _)
TryMethods(i, outcomes, writes, output_file) ==
    IF i > Len(methods)
    THEN [found |-> FALSE, tickers |-> <<>>, file |-> output_file, called |-> <<>>]
    ELSE LET got == Method(outcomes[i])
             saved == WriteTickers(output_file, got.value, writes[i])
             rest == TryMethods(i + 1, outcomes, writes,
                                IF got.raised = "" /\ Truthy(got.value)
                                THEN saved.file ELSE output_file)
         IN  IF got.raised = "" /\ Truthy(got.value) /\ saved.raised = ""
             THEN [found |-> TRUE, tickers |-> got.value, file |-> saved.file,
                   called |-> <<methods[i]>>]
             ELSE [rest EXCEPT !.called = <<methods[i]>> \o rest.called]

(* download_sp500_tickers(save_dir): writes holds the outcome of the write
   after each method and, last, of the write of create_fallback_file *)
download_sp500_tickers(mkdir, outcomes, writes, output_file) ==
    LET loop == TryMethods(1, outcomes, writes, output_file)
        fallback == create_fallback_file(loop.file, writes[Len(methods) + 1])
    IN  IF mkdir # "ok"
        THEN [raised |-> "OSError", value |-> None, file |-> output_file,
              called |-> <<>>, fallback |-> FALSE]
        ELSE IF loop.found
        THEN [raised |-> "", value |-> loop.tickers, file |-> loop.file,
              called |-> loop.called, fallback |-> FALSE]
        ELSE [raised |-> fallback.raised, value |-> None, file |-> fallback.file,
              called |-> loop.called, fallback |-> TRUE]

DownloadCalls ==
    {[pc |-> "called", mkdir |-> m, methods |-> o, writes |-> w, raised |-> "",
      value |-> <<>>, called |-> <<>>, fallback |-> FALSE] :
        m \in {"ok", "error"},
        o \in [1..Len(methods) -> MethodOutcomes],
        w \in [1..(Len(methods) + 1) -> WriteOutcomes]}

DownloadSp500Tickers ==
    /\ download.pc = "called"
    /\ LET r == download_sp500_tickers(download.mkdir, download.methods, download.writes,
                                       cache_file)
       IN  /\ cache_file' = r.file
           /\ download' = [download EXCEPT !.pc = IF r.raised # "" THEN "raised" ELSE "returned",
                                           !.raised = r.raised, !.value = r.value,
                                           !.called = r.called, !.fallback = r.fallback]
           /\ last' = Call("download_sp500_tickers", r.raised, EmptyDict, 0)
    /\ UNCHANGED <<today, closes, tracking_file, historical_file, daily_snapshot_file,
                   new_movers, scan, proc, ml_dataset, next_eid, failures>>

InitDownload ==
    /\ today = 1
    /\ proc = NoProcess
    /\ ml_dataset = <<>>
    /\ closes = InitCloses
    /\ cache_file \in {NoFile} \cup {File(l) : l \in CacheLists}
    /\ tracking_file = NoFile
    /\ historical_file = NoFile
    /\ daily_snapshot_file = NoFile
    /\ new_movers = <<>>
    /\ scan = NoScan
    /\ download \in DownloadCalls
    /\ next_eid = 0
    /\ failures = 0
    /\ last = Call("init", "", EmptyDict, 0)

NextDownload == DownloadSp500Tickers

SpecDownload == InitDownload /\ [][NextDownload]_vars

(* method i of the call returned a non-empty list and the list was saved *)
Succeeded(i) ==
    /\ download.methods[i].ok
    /\ download.methods[i].symbols # <<>>
    /\ download.writes[i].opened
    /\ \/ download.writes[i].failing = 0
       \/ download.writes[i].failing > Len(download.methods[i].symbols)

(* C20: the methods are called in the listed order up to the first that
   returns a non-empty list that is saved, whose list is in the file and is
   returned; a method that raises or returns an empty list is followed by
   the next; when no method succeeds, and only then, the fallback list is
   written, without duplicates and sorted, and None is returned. *)
C20_MethodsInOrderThenFallback ==
    (download.pc \in {"returned", "raised"} /\ download.mkdir = "ok") =>
        /\ \A i \in DOMAIN download.called : download.called[i] = methods[i]
        /\ \A i \in DOMAIN methods :
              (Succeeded(i) /\ \A j \in 1..(i - 1) : ~Succeeded(j)) =>
                  /\ Len(download.called) = i
                  /\ download.pc = "returned"
                  /\ download.value = MapReplace(download.methods[i].symbols)
                  /\ cache_file = File(download.value)
        /\ download.fallback <=> \A i \in DOMAIN methods : ~Succeeded(i)
        /\ download.fallback =>
              /\ Len(download.called) = Len(methods)
              /\ download.pc = "returned" =>
                    /\ download.value = None
                    /\ cache_file.exists
                    /\ {cache_file.rows[i] : i \in DOMAIN cache_file.rows}
                           = {major_tickers[i] : i \in DOMAIN major_tickers}
                    /\ \A i \in 1..(Len(cache_file.rows) - 1) :
                           StrLess(cache_file.rows[i], cache_file.rows[i + 1])

C20_Witness ==
    /\ download.pc = "returned"
    /\ download.fallback
    /\ download.value = None
    /\ ~download.methods[1].ok
    /\ download.methods[2].ok /\ download.methods[2].symbols = <<>>
    /\ download.methods[3].ok /\ download.methods[3].symbols # <<>>
    /\ cache_file = File(sorted_major_tickers)
    /\ Len(cache_file.rows) < Len(major_tickers)

====
